---- MODULE Spec2Model ----
(***************************************************************************)
(* Model of pymanifold.Schematic (src/src/pymanifold.py): the graph        *)
(* construction operations channel / port / node / elec_port, the          *)
(* parameter validator, translate_schematic, invoke_backend, solve and     *)
(* to_json.                                                                *)
(*                                                                         *)
(* Representation of Python values.                                        *)
(*  - A Python string is the sequence of its underscore-free pieces, i.e.  *)
(*    what str.split("_") returns: "a" is <<"a">>, "flow_rate" is          *)
(*    <<"flow","rate">>, "" is <<"">>.  Concatenation with an underscore   *)
(*    in between is \o, which loses the position of the boundary exactly   *)
(*    as the Python concatenation does.                                    *)
(*  - A Python value is a record [t, n, s]: t is the type tag, n the       *)
(*    numeric payload in tenths (0.4 is 4, 1 is 10, -1 is -10), s the      *)
(*    string payload.                                                      *)
(*  - A dict is a function from keys to values; an insertion-ordered dict  *)
(*    whose order matters is a sequence of <<key, value>> pairs.           *)
(***************************************************************************)
EXTENDS Integers, Sequences, FiniteSets, TLC

VARIABLES dg, exprs, last, solverLog, nxjson, ir, ncreate, nsolve

vars == <<dg, exprs, last, solverLog, nxjson, ir, ncreate, nsolve>>

----------------------------------------------------------------------------
(* Python values *)

PyFalse   == [t |-> "bool", n |-> 0, s |-> <<>>]
PyNone    == [t |-> "none", n |-> 0, s |-> <<>>]
Num(i)    == [t |-> "num", n |-> i, s |-> <<>>]
Str(toks) == [t |-> "str", n |-> 0, s |-> toks]
\* dreal Variable(name)
Variable(toks) == [t |-> "var", n |-> 0, s |-> toks]
\* the (lb, ub) pair the solver returned for the variable called toks
Interval(toks) == [t |-> "interval", n |-> 0, s |-> toks]
\* a datum of the fluid property table
FluidDatum(toks) == [t |-> "fluid", n |-> 0, s |-> toks]

IsNumeric(v) == v.t \in {"bool", "num"}

\* Python ==, as dict key comparison uses it: False == 0, True == 1
PyEq(a, b) ==
    \/ IsNumeric(a) /\ IsNumeric(b) /\ a.n = b.n
    \/ a.t = b.t /\ ~IsNumeric(a) /\ a.s = b.s /\ a.n = b.n

\* Python truth value
Truthy(v) ==
    CASE IsNumeric(v) -> v.n # 0
      [] v.t = "str"  -> v.s # <<"">>
      [] v.t = "none" -> FALSE
      [] OTHER        -> TRUE

\* str.lower() on one piece: the capitalised and the upper-case spelling of the
\* words of the model's vocabulary and the upper-case letters, each paired with
\* its lower-case spelling; any other piece is lower-case already
LowerPairs ==
    {<<"Input", "input">>, <<"INPUT", "input">>, <<"Output", "output">>,
     <<"OUTPUT", "output">>, <<"Node", "node">>, <<"NODE", "node">>,
     <<"None", "none">>, <<"NONE", "none">>, <<"Continuous", "continuous">>,
     <<"CONTINUOUS", "continuous">>, <<"Dispersed", "dispersed">>,
     <<"DISPERSED", "dispersed">>, <<"Rectangle", "rectangle">>,
     <<"RECTANGLE", "rectangle">>, <<"Rect", "rect">>, <<"RECT", "rect">>,
     <<"Angle", "angle">>, <<"ANGLE", "angle">>, <<"Tangle", "tangle">>,
     <<"TANGLE", "tangle">>, <<"Channel", "channel">>,
     <<"CHANNEL", "channel">>, <<"Tjunc", "tjunc">>, <<"TJUNC", "tjunc">>,
     <<"Valve", "valve">>, <<"VALVE", "valve">>, <<"Chip", "chip">>,
     <<"CHIP", "chip">>, <<"Default", "default">>, <<"DEFAULT", "default">>,
     <<"Translate", "translate">>, <<"TRANSLATE", "translate">>,
     <<"A", "a">>, <<"B", "b">>, <<"C", "c">>, <<"D", "d">>, <<"E", "e">>,
     <<"F", "f">>, <<"G", "g">>, <<"H", "h">>, <<"I", "i">>, <<"J", "j">>,
     <<"K", "k">>, <<"L", "l">>, <<"M", "m">>, <<"N", "n">>, <<"O", "o">>,
     <<"P", "p">>, <<"Q", "q">>, <<"R", "r">>, <<"S", "s">>, <<"T", "t">>,
     <<"U", "u">>, <<"V", "v">>, <<"W", "w">>, <<"X", "x">>, <<"Y", "y">>,
     <<"Z", "z">>}

LowerTok(tok) ==
    IF \E p \in LowerPairs : p[1] = tok
    THEN (CHOOSE p \in LowerPairs : p[1] = tok)[2]
    ELSE tok

Lower(toks) == [i \in DOMAIN toks |-> LowerTok(toks[i])]

Range(seq) == {seq[i] : i \in DOMAIN seq}

----------------------------------------------------------------------------
(* Errors.  The code raises ValueError with different messages; the model  *)
(* names them after the spec's error kinds.                                *)

NoError == "none"
ValueErrors == {"InvalidParameterRange", "DuplicateName",
                "UnsupportedKind", "MissingInput", "UnreachableOutput"}
TypeErrors == {"InvalidParameterType", "TypeError"}

----------------------------------------------------------------------------
(* validate_params *)

\* The dict literal {k1: tag1, k2: tag2, ...}: a key equal (==) to an earlier
\* key keeps the earlier key's position and takes the later tag.
RECURSIVE DictLiteral(_)
DictLiteral(pairs) ==
    IF pairs = <<>> THEN <<>>
    ELSE LET n     == Len(pairs)
             init  == DictLiteral(SubSeq(pairs, 1, n - 1))
             p     == pairs[n]
             hit   == {i \in DOMAIN init : PyEq(init[i][1], p[1])}
         IN  IF hit = {} THEN Append(init, p)
             ELSE [i \in DOMAIN init |->
                     IF i \in hit THEN <<init[i][1], p[2]>> ELSE init[i]]

\* the check of one (param, value) item; "none" when it passes
ValidateItem(param, tag) ==
    IF ~Truthy(param) THEN NoError
    ELSE CASE tag = "string" ->
                IF param.t = "str" THEN NoError ELSE "InvalidParameterType"
           [] tag = "number" ->
                IF IsNumeric(param) THEN NoError ELSE "InvalidParameterType"
           [] tag = "negative number" ->
                IF ~IsNumeric(param) THEN "InvalidParameterType"
                ELSE IF param.n > 0 THEN "InvalidParameterRange" ELSE NoError
           [] tag = "positive number" ->
                IF ~IsNumeric(param) THEN "InvalidParameterType"
                ELSE IF param.n < 0 THEN "InvalidParameterRange" ELSE NoError
           [] OTHER -> NoError

RECURSIVE ValidateFrom(_, _)
ValidateFrom(params, i) ==
    IF i > Len(params) THEN NoError
    ELSE LET e == ValidateItem(params[i][1], params[i][2])
         IN  IF e # NoError THEN e ELSE ValidateFrom(params, i + 1)

validate_params(pairs) == ValidateFrom(DictLiteral(pairs), 1)

----------------------------------------------------------------------------
(* The graph self.dg: nodes and edges in insertion order, each with its    *)
(* attribute dict.  add_edge creates missing endpoints with no attributes. *)

\* a dict built by assigning the pairs in order
Dict(pairs) ==
    [k \in {pairs[i][1] : i \in DOMAIN pairs} |->
        LET hits == {i \in DOMAIN pairs : pairs[i][1] = k}
            lastHit == CHOOSE i \in hits : \A j \in hits : j <= i
        IN  pairs[lastHit][2]]

EmptyDict == Dict(<<>>)

EmptyGraph == [nodes |-> <<>>, edges |-> <<>>]

NodeIds(g) == {g.nodes[i].id : i \in DOMAIN g.nodes}

HasEdge(g, u, v) ==
    \E i \in DOMAIN g.edges : g.edges[i].source = u /\ g.edges[i].target = v

\* nx.DiGraph.add_node(name) followed by the attribute assignments
add_node(g, name, attrs) ==
    IF name \in NodeIds(g)
    THEN [g EXCEPT !.nodes = [i \in DOMAIN g.nodes |->
                IF g.nodes[i].id = name
                THEN [id |-> name,
                      attrs |-> [k \in DOMAIN g.nodes[i].attrs \cup DOMAIN attrs |->
                                   IF k \in DOMAIN attrs THEN attrs[k]
                                   ELSE g.nodes[i].attrs[k]]]
                ELSE g.nodes[i]]]
    ELSE [g EXCEPT !.nodes = Append(g.nodes, [id |-> name, attrs |-> attrs])]

\* nx.DiGraph.add_edge(u, v) followed by the attribute assignments
add_edge(g, u, v, attrs) ==
    LET g1 == IF u \in NodeIds(g) THEN g ELSE add_node(g, u, EmptyDict)
        g2 == IF v \in NodeIds(g1) THEN g1 ELSE add_node(g1, v, EmptyDict)
    IN  IF HasEdge(g2, u, v)
        THEN [g2 EXCEPT !.edges = [i \in DOMAIN g2.edges |->
                IF g2.edges[i].source = u /\ g2.edges[i].target = v
                THEN [source |-> u, target |-> v, attrs |-> attrs]
                ELSE g2.edges[i]]]
        ELSE [g2 EXCEPT !.edges =
                Append(g2.edges, [source |-> u, target |-> v, attrs |-> attrs])]

----------------------------------------------------------------------------
(* Kinds and translation rules *)

\* self.translation_strats = dir(translate): the names of the rule set
translation_strats ==
    {<<"translate", "input">>, <<"translate", "output">>, <<"translate", "node">>,
     <<"translate", "channel">>, <<"translate", "tjunc">>, <<"translate", "chip">>}

\* 'translate_' + kind.lower() in self.translation_strats
HasStrategy(kind) == (<<"translate">> \o Lower(kind.s)) \in translation_strats

\* valid_kinds = ("rectangle") is a str: its substrings, the empty one included
valid_kinds ==
    {"", "a", "c", "e", "g", "l", "n", "r", "t", "an", "ct", "ec", "gl",
     "le", "ng", "re", "ta", "ang", "cta", "ect", "gle", "ngl", "rec", "tan",
     "angl", "ctan", "ecta", "ngle", "rect", "tang", "angle", "ctang",
     "ectan", "recta", "tangl", "ctangl", "ectang", "rectan", "tangle",
     "ctangle", "ectangl", "rectang", "ectangle", "rectangl", "rectangle"}

\* kind in valid_kinds: a substring test (no substring holds an underscore)
InValidKinds(kind) == Len(kind.s) = 1 /\ kind.s[1] \in valid_kinds

\* Fluid(fluid_name): the fluid table's data
Fluid(fluid_name) ==
    [min_density |-> FluidDatum(fluid_name.s \o <<"density">>),
     min_viscosity |-> FluidDatum(fluid_name.s \o <<"viscosity">>),
     analyte_diffusivities |-> FluidDatum(fluid_name.s \o <<"diffusivities">>),
     analyte_initial_concentrations |-> FluidDatum(fluid_name.s \o <<"concentrations">>),
     analyte_radii |-> FluidDatum(fluid_name.s \o <<"radii">>),
     analyte_charges |-> FluidDatum(fluid_name.s \o <<"charges">>)]

Outcome(e, g) == [err |-> e, dg |-> g]

----------------------------------------------------------------------------
(* Schematic.channel *)

ChannelParams(a) ==
    << <<a.port_from, "string">>, <<a.port_to, "string">>,
       <<a.min_length, "positive number">>, <<a.min_width, "positive number">>,
       <<a.min_height, "positive number">>, <<a.min_resolution, "positive number">>,
       <<a.kind, "string">>, <<a.phase, "string">>,
       <<a.min_sampling_rate, "positive number">> >>

ChannelAttributes(a, kind) ==
    LET name == a.port_from.s \o a.port_to.s
    IN Dict(<< <<<<"kind">>, kind>>,
               <<<<"length">>, Variable(name \o <<"length">>)>>,
               <<<<"min", "length">>, a.min_length>>,
               <<<<"width">>, Variable(name \o <<"width">>)>>,
               <<<<"min", "width">>, a.min_width>>,
               <<<<"height">>, Variable(name \o <<"height">>)>>,
               <<<<"min", "height">>, a.min_height>>,
               <<<<"resolution">>, Variable(name \o <<"resolution">>)>>,
               <<<<"min", "resolution">>, a.min_resolution>>,
               <<<<"flow", "rate">>, Variable(name \o <<"flow", "rate">>)>>,
               <<<<"droplet", "volume">>, Variable(name \o <<"droplet", "volume">>)>>,
               <<<<"viscosity">>, Variable(name \o <<"viscosity">>)>>,
               <<<<"resistance">>, Variable(name \o <<"resistance">>)>>,
               <<<<"phase">>, Str(Lower(a.phase.s))>>,
               <<<<"port", "from">>, a.port_from>>,
               <<<<"port", "to">>, a.port_to>>,
               <<<<"x", "detector">>, Variable(name \o <<"x", "detector">>)>>,
               <<<<"min", "sampling", "rate">>, a.min_sampling_rate>> >>)

\* On a pair that has a channel already the code builds its message with
\* "...%s" % (port_from, port_to), one placeholder for two values, and that
\* raises TypeError before any ValueError exists.
channel(g, a) ==
    LET kind == IF a.kind = Str(<<"rectangle">>) THEN Str(<<"channel">>) ELSE a.kind
        v    == validate_params(ChannelParams(a))
    IN  IF a.kind.t # "str" THEN Outcome("TypeError", g)
        ELSE IF ~InValidKinds(a.kind) THEN Outcome("UnsupportedKind", g)
        ELSE IF v # NoError THEN Outcome(v, g)
        ELSE IF HasEdge(g, a.port_from.s, a.port_to.s) THEN Outcome("TypeError", g)
        ELSE IF ~HasStrategy(kind) THEN Outcome("UnsupportedKind", g)
        ELSE IF a.port_from.t # "str" \/ a.port_to.t # "str" THEN Outcome("TypeError", g)
        ELSE IF a.phase.t # "str" THEN Outcome("AttributeError", g)
        ELSE Outcome(NoError,
                     add_edge(g, a.port_from.s, a.port_to.s, ChannelAttributes(a, kind)))

----------------------------------------------------------------------------
(* Schematic.port *)

PortParams(a) ==
    << <<a.name, "string">>, <<a.min_pressure, "positive number">>,
       <<a.min_flow_rate, "positive number">>, <<a.x, "positive number">>,
       <<a.y, "positive number">>, <<a.kind, "string">>,
       <<a.fluid_name, "string">> >>

PortAttributes(a) ==
    LET name == a.name.s
        fluid_properties == Fluid(a.fluid_name)
    IN Dict(<< <<<<"kind">>, Str(Lower(a.kind.s))>>,
               <<<<"viscosity">>, Variable(name \o <<"viscosity">>)>>,
               <<<<"min", "viscosity">>, fluid_properties.min_viscosity>>,
               <<<<"pressure">>, Variable(name \o <<"pressure">>)>>,
               <<<<"min", "pressure">>, a.min_pressure>>,
               <<<<"flow", "rate">>, Variable(name \o <<"flow", "rate">>)>>,
               <<<<"min", "flow", "rate">>, a.min_flow_rate>>,
               <<<<"density">>, Variable(name \o <<"density">>)>>,
               <<<<"min", "density">>, fluid_properties.min_density>>,
               <<<<"x">>, Variable(name \o <<"x">>)>>,
               <<<<"y">>, Variable(name \o <<"y">>)>>,
               <<<<"min", "x">>, a.x>>,
               <<<<"min", "y">>, a.y>>,
               <<<<"analyte", "diffusivities">>, fluid_properties.analyte_diffusivities>>,
               <<<<"analyte", "initial", "concentrations">>,
                 fluid_properties.analyte_initial_concentrations>>,
               <<<<"analyte", "radii">>, fluid_properties.analyte_radii>>,
               <<<<"analyte", "charges">>, fluid_properties.analyte_charges>> >>)

\* port without the lookup of the name among the nodes
port_NoDuplicateCheck(g, a) ==
    LET v == validate_params(PortParams(a))
    IN  IF v # NoError THEN Outcome(v, g)
        ELSE IF ~HasStrategy(a.kind) THEN Outcome("UnsupportedKind", g)
        ELSE Outcome(NoError, add_node(g, a.name.s, PortAttributes(a)))

\* port that adds the node to the graph before it checks the kind
port_AddsNodeFirst(g, a) ==
    LET v == validate_params(PortParams(a))
    IN  IF v # NoError THEN Outcome(v, g)
        ELSE IF a.name.s \in NodeIds(g) THEN Outcome("DuplicateName", g)
        ELSE IF ~HasStrategy(a.kind)
             THEN Outcome("UnsupportedKind", add_node(g, a.name.s, EmptyDict))
        ELSE Outcome(NoError, add_node(g, a.name.s, PortAttributes(a)))

port(g, a) ==
    LET v == validate_params(PortParams(a))
    IN  IF v # NoError THEN Outcome(v, g)
        ELSE IF a.name.s \in NodeIds(g) THEN Outcome("DuplicateName", g)
        ELSE IF a.kind.t # "str" THEN Outcome("AttributeError", g)
        ELSE IF ~HasStrategy(a.kind) THEN Outcome("UnsupportedKind", g)
        ELSE IF a.name.t # "str" THEN Outcome("TypeError", g)
        ELSE Outcome(NoError, add_node(g, a.name.s, PortAttributes(a)))

----------------------------------------------------------------------------
(* Schematic.node *)

NodeParams(a) ==
    << <<a.name, "string">>, <<a.x, "positive number">>, <<a.y, "positive number">>,
       <<a.kind, "string">>, <<a.c, "positive number">>, <<a.p, "positive number">>,
       <<a.qf, "positive number">> >>

NodeAttributes(a) ==
    LET name == a.name.s
    IN Dict(<< <<<<"kind">>, Str(Lower(a.kind.s))>>,
               <<<<"pressure">>, Variable(name \o <<"pressure">>)>>,
               <<<<"min", "pressure">>, PyNone>>,
               <<<<"flow", "rate">>, Variable(name \o <<"flow", "rate">>)>>,
               <<<<"min", "flow", "rate">>, PyNone>>,
               <<<<"viscosity">>, Variable(name \o <<"viscosity">>)>>,
               <<<<"min", "viscosity">>, PyNone>>,
               <<<<"density">>, Variable(name \o <<"density">>)>>,
               <<<<"min", "density">>, PyNone>>,
               <<<<"x">>, Variable(name \o <<"x">>)>>,
               <<<<"min", "x">>, IF Truthy(a.x) THEN a.x ELSE PyNone>>,
               <<<<"y">>, Variable(name \o <<"y">>)>>,
               <<<<"min", "y">>, IF Truthy(a.y) THEN a.y ELSE PyNone>>,
               <<<<"c">>, a.c>>,
               <<<<"p">>, a.p>>,
               <<<<"qf">>, a.qf>> >>)

\* node without the lookup of the kind among the translation rules
node_NoKindCheck(g, a) ==
    LET v == validate_params(NodeParams(a))
    IN  IF v # NoError THEN Outcome(v, g)
        ELSE IF a.name.s \in NodeIds(g) THEN Outcome("DuplicateName", g)
        ELSE Outcome(NoError, add_node(g, a.name.s, NodeAttributes(a)))

node(g, a) ==
    LET v == validate_params(NodeParams(a))
    IN  IF v # NoError THEN Outcome(v, g)
        ELSE IF a.name.s \in NodeIds(g) THEN Outcome("DuplicateName", g)
        ELSE IF a.kind.t # "str" THEN Outcome("AttributeError", g)
        ELSE IF ~HasStrategy(a.kind) THEN Outcome("UnsupportedKind", g)
        ELSE IF a.name.t # "str" THEN Outcome("TypeError", g)
        ELSE Outcome(NoError, add_node(g, a.name.s, NodeAttributes(a)))

----------------------------------------------------------------------------
(* Schematic.elec_port *)

ElecPortParams(a) ==
    << <<a.name, "string">>, <<a.min_pressure, "positive number">>,
       <<a.min_flow_rate, "positive number">>, <<a.x, "positive number">>,
       <<a.y, "positive number">>, <<a.voltage, "number">>,
       <<a.current, "positive number">>, <<a.kind, "string">>,
       <<a.fluid_name, "string">> >>

ElecPortAttributes(a) ==
    LET name == a.name.s
        fluid_properties == Fluid(a.fluid_name)
    IN Dict(<< <<<<"kind">>, Str(Lower(a.kind.s))>>,
               <<<<"viscosity">>, Variable(name \o <<"viscosity">>)>>,
               <<<<"min", "viscosity">>, fluid_properties.min_viscosity>>,
               <<<<"pressure">>, Variable(name \o <<"pressure">>)>>,
               <<<<"min", "pressure">>, a.min_pressure>>,
               <<<<"flow", "rate">>, Variable(name \o <<"flow", "rate">>)>>,
               <<<<"min", "flow", "rate">>, a.min_flow_rate>>,
               <<<<"density">>, Variable(name \o <<"density">>)>>,
               <<<<"min", "density">>, fluid_properties.min_density>>,
               <<<<"x">>, Variable(name \o <<"X">>)>>,
               <<<<"y">>, Variable(name \o <<"Y">>)>>,
               <<<<"min", "x">>, a.x>>,
               <<<<"min", "y">>, a.y>>,
               <<<<"voltage">>, a.voltage>>,
               <<<<"current">>, a.current>> >>)

elec_port(g, a) ==
    LET v == validate_params(ElecPortParams(a))
    IN  IF v # NoError THEN Outcome(v, g)
        ELSE IF a.name.s \in NodeIds(g) THEN Outcome("DuplicateName", g)
        ELSE IF a.kind.t # "str" THEN Outcome("AttributeError", g)
        ELSE IF ~HasStrategy(a.kind) THEN Outcome("UnsupportedKind", g)
        ELSE IF a.name.t # "str" THEN Outcome("TypeError", g)
        ELSE Outcome(NoError, add_node(g, a.name.s, ElecPortAttributes(a)))

----------------------------------------------------------------------------
(* The translation rules (module translate) and the decision procedure     *)
(* (dreal), modelled from their description: a constraint is the rule that *)
(* emitted it and the entity it is about.                                  *)

Constraint(rule, subject) == [rule |-> rule, subject |-> subject]

Successors(g, S) ==
    {g.edges[i].target : i \in {j \in DOMAIN g.edges : g.edges[j].source \in S}}

RECURSIVE Reachable(_, _)
Reachable(g, S) ==
    LET T == S \cup Successors(g, S)
    IN  IF T = S THEN S ELSE Reachable(g, T)

KindOf(g, i) == g.nodes[i].attrs[<<"kind">>].s

\* subsequence of seq at the indices in keep, from index i on
RECURSIVE SelectIdx(_, _, _)
SelectIdx(seq, keep, i) ==
    IF i > Len(seq) THEN <<>>
    ELSE (IF i \in keep THEN <<seq[i]>> ELSE <<>>) \o SelectIdx(seq, keep, i + 1)

\* translate.translate_input(dg, name): the rule of the input port, then the
\* rules of every entity and channel met by following channels from it
translate_input(g, name) ==
    LET R == Reachable(g, {name})
        nodeCs == [i \in DOMAIN g.nodes |-> Constraint(KindOf(g, i), <<g.nodes[i].id>>)]
        edgeCs == [i \in DOMAIN g.edges |->
                     Constraint(g.edges[i].attrs[<<"kind">>].s,
                                <<g.edges[i].source, g.edges[i].target>>)]
        inR   == {i \in DOMAIN g.nodes : g.nodes[i].id \in R}
        fromR == {i \in DOMAIN g.edges : g.edges[i].source \in R}
    IN  SelectIdx(nodeCs, inR, 1) \o SelectIdx(edgeCs, fromR, 1)

\* translate.translate_chip(dg, name, dim): x and y of the entity within dim
translate_chip(g, name) == <<Constraint(<<"chip">>, <<name>>)>>

\* every dreal Variable held by the graph, by name
VariableNames(g) ==
    UNION {{g.nodes[i].attrs[k].s : k \in {k2 \in DOMAIN g.nodes[i].attrs :
                                            g.nodes[i].attrs[k2].t = "var"}} :
           i \in DOMAIN g.nodes}
    \cup
    UNION {{g.edges[i].attrs[k].s : k \in {k2 \in DOMAIN g.edges[i].attrs :
                                            g.edges[i].attrs[k2].t = "var"}} :
           i \in DOMAIN g.edges}

\* CheckSatisfiability(formula, 10): None, or an interval for every variable
CheckSatisfiability(g, sat) ==
    IF sat THEN [kind |-> "model", vars |-> VariableNames(g)]
    ELSE [kind |-> "none", vars |-> {}]

----------------------------------------------------------------------------
(* Schematic.translate_schematic: the outcome and self.exprs as it leaves  *)
(* them (an exception keeps what was appended before it).                  *)

HasKind(g, i) == <<"kind">> \in DOMAIN g.nodes[i].attrs

\* the inner loop over self.dg.nodes(data=True): KeyError on a node with no
\* 'kind', else whether some node is an output
InnerLoopError(g) == \E i \in DOMAIN g.nodes : ~HasKind(g, i)
HasOutput(g) == \E i \in DOMAIN g.nodes : HasKind(g, i) /\ KindOf(g, i) = <<"output">>

\* the closing loop constraining only the nodes an input port leads to
RECURSIVE ChipLoop_ReachedOnly(_, _, _)
ChipLoop_ReachedOnly(g, ex, i) ==
    LET inputs == {g.nodes[j].id : j \in {k \in DOMAIN g.nodes :
                                            KindOf(g, k) = <<"input">>}}
    IN  IF i > Len(g.nodes) THEN ex
        ELSE ChipLoop_ReachedOnly(g,
                 IF g.nodes[i].id \in Reachable(g, inputs)
                 THEN ex \o translate_chip(g, g.nodes[i].id) ELSE ex,
                 i + 1)

RECURSIVE ChipLoop(_, _, _)
ChipLoop(g, ex, i) ==
    IF i > Len(g.nodes) THEN ex
    ELSE ChipLoop(g, ex \o translate_chip(g, g.nodes[i].id), i + 1)

RECURSIVE InputLoop(_, _, _, _)
InputLoop(g, ex, i, has_input) ==
    IF i > Len(g.nodes)
    THEN IF ~has_input THEN [err |-> "MissingInput", exprs |-> ex]
         ELSE [err |-> NoError, exprs |-> ChipLoop(g, ex, 1)]
    ELSE IF ~HasKind(g, i) THEN [err |-> "KeyError", exprs |-> ex]
    ELSE IF KindOf(g, i) = <<"input">>
         THEN IF InnerLoopError(g) THEN [err |-> "KeyError", exprs |-> ex]
              ELSE IF HasOutput(g)
                   THEN InputLoop(g, ex \o translate_input(g, g.nodes[i].id), i + 1, TRUE)
                   ELSE [err |-> "UnreachableOutput", exprs |-> ex]
    ELSE InputLoop(g, ex, i + 1, has_input)

translate_schematic(g, ex) == InputLoop(g, ex, 1, FALSE)

(* Schematic.invoke_backend and Schematic.solve: the outcome, self.exprs,  *)
(* the formulas handed to the decision procedure, and the returned value.  *)
invoke_backend(g, ex, sat) ==
    LET model == CheckSatisfiability(g, sat)
    IN  [formula |-> ex, answer |-> model.kind,
         ret |-> IF model.kind = "model" THEN model
                 ELSE [kind |-> "No solution found", vars |-> {}]]

\* solve that asks the decision procedure again when it answers None
solve_Retries(g, ex, sat) ==
    LET t == translate_schematic(g, ex)
    IN  IF t.err # NoError
        THEN [err |-> t.err, exprs |-> t.exprs, called |-> <<>>,
              answer |-> "not asked", ret |-> [kind |-> "raise", vars |-> {}]]
        ELSE LET b == invoke_backend(g, t.exprs, sat)
             IN  [err |-> NoError, exprs |-> t.exprs,
                  called |-> IF b.ret.kind = "model" THEN <<b.formula>>
                             ELSE <<b.formula, b.formula>>,
                  answer |-> b.answer, ret |-> b.ret]

solve(g, ex, sat) ==
    LET t == translate_schematic(g, ex)
    IN  IF t.err # NoError
        THEN [err |-> t.err, exprs |-> t.exprs, called |-> <<>>,
              answer |-> "not asked", ret |-> [kind |-> "raise", vars |-> {}]]
        ELSE LET b == invoke_backend(g, t.exprs, sat)
             IN  [err |-> NoError, exprs |-> t.exprs, called |-> <<b.formula>>,
                  answer |-> b.answer, ret |-> b.ret]

----------------------------------------------------------------------------
(* Schematic.to_json *)

\* d[k] = v on a dict
Put(d, k, v) == [x \in DOMAIN d \cup {k} |-> IF x = k THEN v ELSE d[x]]

\* "_".join(list_of_pieces)
JoinPieces(pieces) == IF pieces = <<>> THEN <<"">> ELSE pieces

\* str == piece: a str equals one piece of a split iff it is that piece alone
EqPiece(str, piece) == str.t = "str" /\ str.s = <<piece>>

\* nx.readwrite.json_graph.node_link_data(self.dg): one dict per node (its
\* attributes and 'id'), one per edge (its attributes, 'source', 'target');
\* edges come out grouped by source in node order
RECURSIVE LinksFrom(_, _)
LinksFrom(g, i) ==
    IF i > Len(g.nodes) THEN <<>>
    ELSE LET out == {j \in DOMAIN g.edges : g.edges[j].source = g.nodes[i].id}
             ds == [j \in DOMAIN g.edges |->
                      Put(Put(g.edges[j].attrs, <<"source">>, Str(g.edges[j].source)),
                          <<"target">>, Str(g.edges[j].target))]
         IN  SelectIdx(ds, out, 1) \o LinksFrom(g, i + 1)

node_link_data(g) ==
    [nodes |-> [i \in DOMAIN g.nodes |->
                  Put(g.nodes[i].attrs, <<"id">>, Str(g.nodes[i].id))],
     links |-> LinksFrom(g, 1)]

\* the body of the loop over dreal_output.items() for one solved variable
WriteBack(json, attribute) ==
    LET attr_split == attribute
        value == Interval(attribute)
        n == Len(attr_split)
    IN  [nodes |-> [i \in DOMAIN json.nodes |->
                      IF EqPiece(json.nodes[i][<<"id">>], attr_split[1])
                      THEN Put(json.nodes[i], JoinPieces(SubSeq(attr_split, 2, n)), value)
                      ELSE json.nodes[i]],
         links |-> [i \in DOMAIN json.links |->
                      IF /\ EqPiece(json.links[i][<<"source">>], attr_split[1])
                         /\ EqPiece(json.links[i][<<"target">>], attr_split[2])
                      THEN Put(json.links[i], JoinPieces(SubSeq(attr_split, 3, n)), value)
                      ELSE json.links[i]]]

RECURSIVE WriteBackAll(_, _)
WriteBackAll(json, names) ==
    IF names = {} THEN json
    ELSE LET a == CHOOSE x \in names : TRUE
         IN  WriteBackAll(WriteBack(json, a), names \ {a})

\* the generated ids "ch0", "ch1", ... and "pT0", "pT1", ...
Id(prefix, idx) == [prefix |-> prefix, idx |-> idx]

\* a port test that knows 'input' only
IsPortKind_InputOnly(kind) == kind = Str(<<"input">>)

IsPortKind(kind) == kind \in {Str(<<"input">>), Str(<<"output">>)}

Restrict(d, keys) == [k \in keys |-> d[k]]

\* the manifold_ir dict built from the written-back nx_json
manifold_ir(json) ==
    LET nl == Len(json.links)
        nn == Len(json.nodes)
        linkAttrs(d) == Restrict(d, {k \in DOMAIN d :
                            /\ k \notin {<<"port", "from">>, <<"port", "to">>,
                                         <<"source">>, <<"target">>}
                            /\ d[k].t # "var"})
        nodeAttrs(d) == Restrict(d, {k \in DOMAIN d : d[k].t # "var"})
        isPort(i) == IsPortKind(json.nodes[i][<<"kind">>])
    IN  [connections |->
           [id \in {Id("ch", i - 1) : i \in 1..nl} |->
              LET d == json.links[id.idx + 1]
              IN  [from |-> d[<<"source">>], to |-> d[<<"target">>],
                   attributes |-> linkAttrs(d)]],
         nodes |->
           [id \in {Id("pT", i - 1) : i \in 1..nn} |->
              LET d == json.nodes[id.idx + 1]
              IN  [type |-> d[<<"kind">>], portAttrs |-> d[<<"id">>],
                   attributes |-> nodeAttrs(d)]],
         portTypes |->
           [id \in {Id("pT", i - 1) : i \in {j \in 1..nn : isPort(j)}} |->
              LET d == json.nodes[id.idx + 1]
              IN  [signalType |-> d[<<"kind">>], attributes |-> nodeAttrs(d)]],
         nodeTypes |->
           [id \in {Id("pT", i - 1) : i \in {j \in 1..nn : ~isPort(j)}} |->
              LET d == json.nodes[id.idx + 1]
              IN  [signalType |-> d[<<"kind">>], attributes |-> nodeAttrs(d)]]]

NoJson == [nodes |-> <<>>, links |-> <<>>]
NoIr == [written |-> FALSE]

\* to_json: solve's effects, the written-back nx_json and the IR dumped to
\* the file (written is FALSE when the call raised before json.dump)
\* to_json that takes a result without items() as one with no variables
to_json_DumpsWithoutModel(g, ex, sat) ==
    LET nx_json == node_link_data(g)
        output == solve(g, ex, sat)
    IN  IF output.err # NoError
        THEN [err |-> output.err, exprs |-> output.exprs, called |-> output.called,
              answer |-> output.answer, nxjson |-> NoJson, ir |-> NoIr]
        ELSE LET written == WriteBackAll(nx_json, output.ret.vars)
             IN  [err |-> NoError, exprs |-> output.exprs, called |-> output.called,
                  answer |-> output.answer, nxjson |-> written,
                  ir |-> [written |-> TRUE, doc |-> manifold_ir(written)]]

to_json(g, ex, sat) ==
    LET nx_json == node_link_data(g)
        output == solve(g, ex, sat)
    IN  IF output.err # NoError
        THEN [err |-> output.err, exprs |-> output.exprs, called |-> output.called,
              answer |-> output.answer, nxjson |-> NoJson, ir |-> NoIr]
        ELSE IF output.ret.kind # "model"
        THEN [err |-> "AttributeError", exprs |-> output.exprs, called |-> output.called,
              answer |-> output.answer, nxjson |-> NoJson, ir |-> NoIr]
        ELSE LET written == WriteBackAll(nx_json, output.ret.vars)
             IN  [err |-> NoError, exprs |-> output.exprs, called |-> output.called,
                  answer |-> output.answer, nxjson |-> written,
                  ir |-> [written |-> TRUE, doc |-> manifold_ir(written)]]

----------------------------------------------------------------------------
(* Bounds and the arguments the calls are made with *)

\* creation calls per run
MaxCreate == 3
\* solve / to_json calls per run
MaxSolves == 2
\* creation calls before the call with free arguments (SpecArgs)
MaxSeedCalls == 1
\* optional arguments given a non-default value in a call with free arguments
MaxSupplied == 2

Names == {<<"a">>, <<"b">>, <<"a", "b">>}

Neg == Num(-10)
Pos == Num(10)

\* the functions that give at most k of the fields of opt one of its values
Overrides(opt, k) ==
    UNION {{o \in [S -> UNION {opt[f] : f \in S}] : \A f \in S : o[f] \in opt[f]} :
           S \in {T \in SUBSET (DOMAIN opt) : Cardinality(T) <= k}}

With(defaults, o) ==
    [f \in DOMAIN defaults |-> IF f \in DOMAIN o THEN o[f] ELSE defaults[f]]

\* the defaults of the signatures
ChannelDefaults ==
    [min_length |-> PyFalse, min_width |-> PyFalse, min_height |-> PyFalse,
     min_resolution |-> PyFalse, kind |-> Str(<<"rectangle">>),
     phase |-> Str(<<"None">>), min_sampling_rate |-> Num(10)]
PortDefaults ==
    [min_pressure |-> PyFalse, min_flow_rate |-> PyFalse, x |-> PyFalse,
     y |-> PyFalse, fluid_name |-> Str(<<"default">>)]
NodeDefaults ==
    [x |-> PyFalse, y |-> PyFalse, kind |-> Str(<<"node">>),
     c |-> Num(4), p |-> Num(5), qf |-> Num(9)]
ElecPortDefaults ==
    [min_pressure |-> PyFalse, min_flow_rate |-> PyFalse, x |-> PyFalse,
     y |-> PyFalse, voltage |-> PyFalse, current |-> PyFalse,
     fluid_name |-> Str(<<"default">>)]

PortKinds == {Str(<<"input">>), Str(<<"output">>), Str(<<"node">>),
              Str(<<"Input">>), Str(<<"valve">>)}
ElecPortKinds == {Str(<<"input">>), Str(<<"valve">>)}

\* arguments of the calls of Spec: the required ones and at most one optional
ChannelBasic ==
    {With(ChannelDefaults, o) :
       o \in Overrides([min_length |-> {Neg}, kind |-> {Str(<<"rect">>), Str(<<"valve">>)}], 1)}
PortBasic ==
    {With(PortDefaults, o) : o \in Overrides([min_pressure |-> {Neg}], 1)}
NodeBasic ==
    {With(NodeDefaults, o) :
       o \in Overrides([x |-> {Neg}, kind |-> {Str(<<"valve">>)}], 1)}
ElecPortBasic ==
    {With(ElecPortDefaults, o) : o \in Overrides([current |-> {Neg}], 1)}

\* arguments of the call of SpecArgs: up to MaxSupplied optional arguments
ChannelFree ==
    {With(ChannelDefaults, o) :
       o \in Overrides([min_length |-> {Neg, Pos}, min_width |-> {Neg, Pos},
                        min_height |-> {Neg, Pos}, min_resolution |-> {Neg, Pos},
                        kind |-> {Str(<<"rect">>), Str(<<"valve">>), Str(<<"channel">>)},
                        phase |-> {Str(<<"Continuous">>)},
                        min_sampling_rate |-> {Neg}], MaxSupplied)}
PortFree ==
    {With(PortDefaults, o) :
       o \in Overrides([min_pressure |-> {Neg, Pos}, min_flow_rate |-> {Neg, Pos},
                        x |-> {Neg, Pos}, y |-> {Neg, Pos}], MaxSupplied)}
NodeFree ==
    {With(NodeDefaults, o) :
       o \in Overrides([x |-> {Neg, Pos}, y |-> {Neg, Pos},
                        kind |-> {Str(<<"tjunc">>), Str(<<"valve">>), Str(<<"input">>)},
                        c |-> {Neg}, p |-> {Neg}, qf |-> {Neg}], MaxSupplied)}
ElecPortFree ==
    {With(ElecPortDefaults, o) :
       o \in Overrides([min_pressure |-> {Neg, Pos}, min_flow_rate |-> {Neg, Pos},
                        x |-> {Neg, Pos}, y |-> {Neg, Pos},
                        voltage |-> {Neg, Pos}, current |-> {Neg, Pos}], MaxSupplied)}

ChannelCall(u, v, opt) ==
    [f \in DOMAIN opt \cup {"port_from", "port_to"} |->
        IF f = "port_from" THEN Str(u) ELSE IF f = "port_to" THEN Str(v) ELSE opt[f]]
PortCall(name, kind, opt) ==
    [f \in DOMAIN opt \cup {"name", "kind"} |->
        IF f = "name" THEN Str(name) ELSE IF f = "kind" THEN kind ELSE opt[f]]
NodeCall(name, opt) ==
    [f \in DOMAIN opt \cup {"name"} |-> IF f = "name" THEN Str(name) ELSE opt[f]]

----------------------------------------------------------------------------
(* The state machine *)

NoCall == [op |-> "init", args |-> EmptyDict, err |-> NoError]

Init ==
    /\ dg = EmptyGraph
    /\ exprs = <<>>
    /\ last = NoCall
    /\ solverLog = <<>>
    /\ nxjson = NoJson
    /\ ir = NoIr
    /\ ncreate = 0
    /\ nsolve = 0

\* a creation call op(args) with outcome r
Created(op, a, r) ==
    /\ dg' = r.dg
    /\ last' = [op |-> op, args |-> a, err |-> r.err]
    /\ UNCHANGED <<exprs, solverLog, nxjson, ir, nsolve>>

DoChannel(a) == Created("channel", a, channel(dg, a))
DoPort(a) == Created("port", a, port(dg, a))
DoNode(a) == Created("node", a, node(dg, a))
DoElecPort(a) == Created("elec_port", a, elec_port(dg, a))

CallChannel ==
    /\ ncreate < MaxCreate
    /\ ncreate' = ncreate + 1
    /\ \E u \in Names : \E v \in Names \ {u}, opt \in ChannelBasic :
          DoChannel(ChannelCall(u, v, opt))

CallPort ==
    /\ ncreate < MaxCreate
    /\ ncreate' = ncreate + 1
    /\ \E name \in Names, kind \in PortKinds, opt \in PortBasic :
          DoPort(PortCall(name, kind, opt))

CallNode ==
    /\ ncreate < MaxCreate
    /\ ncreate' = ncreate + 1
    /\ \E name \in Names, opt \in NodeBasic : DoNode(NodeCall(name, opt))

CallElecPort ==
    /\ ncreate < MaxCreate
    /\ ncreate' = ncreate + 1
    /\ \E name \in Names, kind \in ElecPortKinds, opt \in ElecPortBasic :
          DoElecPort(PortCall(name, kind, opt))

CallSolve ==
    /\ nsolve < MaxSolves
    /\ nsolve' = nsolve + 1
    /\ \E sat \in BOOLEAN :
          LET r == solve(dg, exprs, sat)
          IN  /\ exprs' = r.exprs
              /\ solverLog' = solverLog \o r.called
              /\ last' = [op |-> "solve", args |-> EmptyDict, err |-> r.err,
                          ret |-> r.ret.kind, answer |-> r.answer,
                          called |-> r.called # <<>>,
                          appended |-> Len(r.exprs) - Len(exprs)]
    /\ UNCHANGED <<dg, nxjson, ir, ncreate>>

CallToJson ==
    /\ nsolve < MaxSolves
    /\ nsolve' = nsolve + 1
    /\ \E sat \in BOOLEAN :
          LET r == to_json(dg, exprs, sat)
          IN  /\ exprs' = r.exprs
              /\ solverLog' = solverLog \o r.called
              /\ nxjson' = r.nxjson
              /\ ir' = r.ir
              /\ last' = [op |-> "to_json", args |-> EmptyDict, err |-> r.err,
                          answer |-> r.answer, called |-> r.called # <<>>,
                          appended |-> Len(r.exprs) - Len(exprs)]
    /\ UNCHANGED <<dg, ncreate>>

\* translate_schematic() called on its own: self.exprs grows, the decision
\* procedure is not asked
CallTranslateSchematic ==
    /\ nsolve < MaxSolves
    /\ nsolve' = nsolve + 1
    /\ LET t == translate_schematic(dg, exprs)
       IN  /\ exprs' = t.exprs
           /\ last' = [op |-> "translate_schematic", args |-> EmptyDict,
                       err |-> t.err, called |-> FALSE,
                       appended |-> Len(t.exprs) - Len(exprs)]
    /\ UNCHANGED <<dg, solverLog, nxjson, ir, ncreate>>

\* invoke_backend(show) called on its own: the decision procedure is asked
\* about self.exprs as it stands.  With no expression at all logical_and has
\* no operand; dreal decides what happens then, so both of its possible
\* outcomes are steps: it raises, or it yields the empty conjunction.
CallInvokeBackend ==
    /\ nsolve < MaxSolves
    /\ nsolve' = nsolve + 1
    /\ \E sat \in BOOLEAN, raises \in BOOLEAN :
          /\ raises => exprs = <<>>
          /\ IF raises
             THEN /\ solverLog' = solverLog
                  /\ last' = [op |-> "invoke_backend", args |-> EmptyDict,
                              err |-> "TypeError", ret |-> "raise",
                              answer |-> "not asked", called |-> FALSE,
                              appended |-> 0]
             ELSE LET b == invoke_backend(dg, exprs, sat)
                  IN  /\ solverLog' = Append(solverLog, b.formula)
                      /\ last' = [op |-> "invoke_backend", args |-> EmptyDict,
                                  err |-> NoError, ret |-> b.ret.kind,
                                  answer |-> b.answer, called |-> TRUE,
                                  appended |-> 0]
    /\ UNCHANGED <<dg, exprs, nxjson, ir, ncreate>>

Next ==
    \/ CallChannel
    \/ CallPort
    \/ CallNode
    \/ CallElecPort
    \/ CallTranslateSchematic
    \/ CallInvokeBackend
    \/ CallSolve
    \/ CallToJson

Spec == Init /\ [][Next]_vars

(* A second specification for the claims about the arguments of one call: *)
(* up to MaxSeedCalls creation calls as in Spec, then one creation call    *)
(* with up to MaxSupplied optional arguments supplied.                     *)

FreeCall ==
    /\ ncreate <= MaxSeedCalls
    /\ ncreate' = MaxSeedCalls + 1

SeedChannel == ncreate < MaxSeedCalls /\ CallChannel
SeedPort == ncreate < MaxSeedCalls /\ CallPort
SeedNode == ncreate < MaxSeedCalls /\ CallNode
SeedElecPort == ncreate < MaxSeedCalls /\ CallElecPort

FreeChannel ==
    /\ FreeCall
    /\ \E u \in Names, v \in Names, opt \in ChannelFree : DoChannel(ChannelCall(u, v, opt))

FreePort ==
    /\ FreeCall
    /\ \E name \in Names, kind \in PortKinds, opt \in PortFree :
          DoPort(PortCall(name, kind, opt))

FreeNode ==
    /\ FreeCall
    /\ \E name \in Names, opt \in NodeFree : DoNode(NodeCall(name, opt))

FreeElecPort ==
    /\ FreeCall
    /\ \E name \in Names, kind \in PortKinds, opt \in ElecPortFree :
          DoElecPort(PortCall(name, kind, opt))

NextArgs ==
    \/ SeedChannel
    \/ SeedPort
    \/ SeedNode
    \/ SeedElecPort
    \/ FreeChannel
    \/ FreePort
    \/ FreeNode
    \/ FreeElecPort

SpecArgs == Init /\ [][NextArgs]_vars

----------------------------------------------------------------------------
(* Vocabulary of the properties *)

CreationOps == {"channel", "port", "node", "elec_port"}

\* the arguments each creation operation declares 'positive number'
PositiveNumberArgs(op) ==
    CASE op = "channel" -> {"min_length", "min_width", "min_height",
                            "min_resolution", "min_sampling_rate"}
      [] op = "port" -> {"min_pressure", "min_flow_rate", "x", "y"}
      [] op = "node" -> {"x", "y", "c", "p", "qf"}
      [] op = "elec_port" -> {"min_pressure", "min_flow_rate", "x", "y", "current"}
      [] OTHER -> {}

HasNegativeArg(call) ==
    \E f \in PositiveNumberArgs(call.op) : IsNumeric(call.args[f]) /\ call.args[f].n < 0

\* the kind a call passes has no translation rule
CallKindUnsupported(call) ==
    IF call.op = "channel" THEN call.args.kind # Str(<<"rectangle">>)
    ELSE ~HasStrategy(call.args.kind)

\* the parameter check of the call passes
CallValidates(call) ==
    CASE call.op = "channel" -> validate_params(ChannelParams(call.args)) = NoError
      [] call.op = "port" -> validate_params(PortParams(call.args)) = NoError
      [] call.op = "node" -> validate_params(NodeParams(call.args)) = NoError
      [] call.op = "elec_port" -> validate_params(ElecPortParams(call.args)) = NoError
      [] OTHER -> TRUE

----------------------------------------------------------------------------
(* C1: a creation call in which an argument declared 'positive number' is  *)
(* negative raises ValueError and leaves the graph as it was, whatever the *)
(* other arguments are.                                                    *)
C1_NegativeArgRejected ==
    [][(last'.op \in CreationOps /\ HasNegativeArg(last'))
         => (last'.err \in ValueErrors /\ dg' = dg)]_vars

----------------------------------------------------------------------------
(* C2: a channel call for an ordered pair that already has a channel fails *)
(* and leaves the graph unchanged, with the duplicate-channel error when   *)
(* its kind and parameters are acceptable; no ordered pair ever has two    *)
(* channels.                                                               *)
OneChannelPerPair ==
    \A i, j \in DOMAIN dg.edges :
        (dg.edges[i].source = dg.edges[j].source /\ dg.edges[i].target = dg.edges[j].target)
            => i = j

\* the error the specification names for the case, a ValueError
DuplicateChannelError == "DuplicateChannel"

C2_DuplicateChannelRejected ==
    /\ []OneChannelPerPair
    /\ [][(last'.op = "channel"
            /\ HasEdge(dg, last'.args.port_from.s, last'.args.port_to.s))
          => /\ last'.err # NoError
             /\ dg' = dg
             /\ (InValidKinds(last'.args.kind) /\ CallValidates(last'))
                   => last'.err = DuplicateChannelError]_vars

(* C3: a port, node or elec_port call with a name some node of the graph   *)
(* already has fails and leaves the graph unchanged, with the duplicate-   *)
(* name error when its parameters are acceptable; node names are unique.   *)
UniqueNames ==
    \A i, j \in DOMAIN dg.nodes : dg.nodes[i].id = dg.nodes[j].id => i = j

C3_DuplicateNameRejected ==
    /\ []UniqueNames
    /\ [][(last'.op \in {"port", "node", "elec_port"}
            /\ last'.args.name.s \in NodeIds(dg))
          => /\ last'.err # NoError
             /\ dg' = dg
             /\ CallValidates(last') => last'.err = "DuplicateName"]_vars

\* node() refused for the name of an entity that port() or elec_port() created
C3_Witness ==
    /\ last.op = "node"
    /\ last.err = "DuplicateName"
    /\ \E i \in DOMAIN dg.nodes :
          /\ dg.nodes[i].id = last.args.name.s
          /\ HasKind(dg, i)
          /\ KindOf(dg, i) = <<"input">>

----------------------------------------------------------------------------
(* C4: when some input port has no output port reachable from it along     *)
(* channels, solve fails with the unreachable-output error and does not    *)
(* call the decision procedure.  Stated for graphs whose nodes all carry a *)
(* kind.                                                                   *)
AllHaveKind(g) == \A i \in DOMAIN g.nodes : HasKind(g, i)

SomeInputReachesNoOutput(g) ==
    \E i \in DOMAIN g.nodes :
        /\ KindOf(g, i) = <<"input">>
        /\ ~\E j \in DOMAIN g.nodes :
              /\ KindOf(g, j) = <<"output">>
              /\ g.nodes[j].id \in Reachable(g, {g.nodes[i].id})

C4_UnreachableOutputFails ==
    (last.op \in {"solve", "to_json"} /\ AllHaveKind(dg) /\ SomeInputReachesNoOutput(dg))
        => (last.err = "UnreachableOutput" /\ ~last.called)

(* C5: solve on a schematic with no entity of kind 'input' fails with the  *)
(* missing-input error, appends no constraint and does not call the        *)
(* decision procedure.                                                     *)
NoInput(g) == \A i \in DOMAIN g.nodes : HasKind(g, i) => KindOf(g, i) # <<"input">>

C5_MissingInputFails ==
    (last.op \in {"solve", "to_json"} /\ NoInput(dg))
        => (last.err = "MissingInput" /\ last.appended = 0 /\ ~last.called)

(* C6: the constraint collection a solve call hands to the decision        *)
(* procedure is exactly what that call's own translation of the graph      *)
(* emits, with nothing carried over from earlier calls.                    *)
C6_FormulaIsOwnTranslation ==
    (last.op \in {"solve", "to_json"} /\ last.called)
        => solverLog[Len(solverLog)] = translate_schematic(dg, <<>>).exprs

----------------------------------------------------------------------------
(* C7: a creation call that fails leaves the nodes, the edges and every    *)
(* stored attribute as they were.                                          *)
C7_FailedCallChangesNothing ==
    [][(last'.op \in CreationOps /\ last'.err # NoError) => dg' = dg]_vars

C7_Witness ==
    /\ last.op = "port"
    /\ last.err = "UnsupportedKind"
    /\ dg.nodes # <<>>

(* C8: a creation call whose kind has no translation rule fails and leaves *)
(* the graph unchanged, with the unsupported-kind error when its other     *)
(* arguments are acceptable and its name or pair is new; every kind stored *)
(* on a node or an edge has a translation rule.                            *)
StoredKindsSupported ==
    /\ \A i \in DOMAIN dg.nodes : HasKind(dg, i) => HasStrategy(dg.nodes[i].attrs[<<"kind">>])
    /\ \A i \in DOMAIN dg.edges : HasStrategy(dg.edges[i].attrs[<<"kind">>])

CallIsDuplicate(call, g) ==
    IF call.op = "channel" THEN HasEdge(g, call.args.port_from.s, call.args.port_to.s)
    ELSE call.args.name.s \in NodeIds(g)

C8_UnsupportedKindRejected ==
    /\ []StoredKindsSupported
    /\ [][(last'.op \in CreationOps /\ CallKindUnsupported(last'))
          => /\ last'.err # NoError
             /\ dg' = dg
             /\ (CallValidates(last') /\ ~CallIsDuplicate(last', dg))
                   => last'.err = "UnsupportedKind"]_vars

C8_Witness ==
    /\ last.op = "node"
    /\ last.err = "UnsupportedKind"
    /\ ~HasStrategy(last.args.kind)

----------------------------------------------------------------------------
(* C9: for a schematic whose names hold no underscore, to_json writes the  *)
(* interval of every solved variable onto the record of the entity that    *)
(* owns the variable, under the attribute part of the variable's name, and *)
(* no record carries the interval of a variable of another entity.         *)
NoUnderscoreNames(g) == \A i \in DOMAIN g.nodes : Len(g.nodes[i].id) = 1

VarsOf(attrs) == {attrs[k].s : k \in {k2 \in DOMAIN attrs : attrs[k2].t = "var"}}

IntervalsOn(rec) == {rec[k].s : k \in {k2 \in DOMAIN rec : rec[k2].t = "interval"}}

\* rec holds the interval of every variable of owned under the name of the
\* variable without its first skip pieces, and no other interval
OwnIntervalsOnly(rec, owned, skip) ==
    /\ \A v \in owned :
          LET k == SubSeq(v, skip + 1, Len(v))
          IN  k \in DOMAIN rec /\ rec[k] = Interval(v)
    /\ IntervalsOn(rec) \subseteq owned

EdgeOfLink(g, link) ==
    CHOOSE j \in DOMAIN g.edges :
        Str(g.edges[j].source) = link[<<"source">>] /\ Str(g.edges[j].target) = link[<<"target">>]

C9_IntervalOnOwnerOnly ==
    (last.op = "to_json" /\ last.err = NoError /\ NoUnderscoreNames(dg))
        => /\ \A i \in DOMAIN dg.nodes :
                OwnIntervalsOnly(nxjson.nodes[i], VarsOf(dg.nodes[i].attrs), 1)
           /\ \A l \in DOMAIN nxjson.links :
                OwnIntervalsOnly(nxjson.links[l],
                                 VarsOf(dg.edges[EdgeOfLink(dg, nxjson.links[l])].attrs), 2)

(* C10: after a to_json that got a model, the IR has one connections entry *)
(* per channel under the ids ch0, ch1, ... and one nodes entry per node    *)
(* under pT0, pT1, ...; every node id is in exactly one of portTypes and   *)
(* nodeTypes, in portTypes iff the node's kind is input or output.         *)
IdsOf(prefix, n) == {Id(prefix, k) : k \in 0..(n - 1)}

C10_IrShape ==
    (last.op = "to_json" /\ last.err = NoError)
        => /\ ir.written
           /\ DOMAIN ir.doc.connections = IdsOf("ch", Len(dg.edges))
           /\ \A e \in DOMAIN dg.edges :
                Cardinality({id \in DOMAIN ir.doc.connections :
                               /\ ir.doc.connections[id].from = Str(dg.edges[e].source)
                               /\ ir.doc.connections[id].to = Str(dg.edges[e].target)}) = 1
           /\ DOMAIN ir.doc.nodes = IdsOf("pT", Len(dg.nodes))
           /\ \A n \in DOMAIN dg.nodes :
                LET ids == {id \in DOMAIN ir.doc.nodes :
                              ir.doc.nodes[id].portAttrs = Str(dg.nodes[n].id)}
                    isPort == KindOf(dg, n) \in {<<"input">>, <<"output">>}
                IN  /\ Cardinality(ids) = 1
                    /\ \A id \in ids :
                          /\ (id \in DOMAIN ir.doc.portTypes) # (id \in DOMAIN ir.doc.nodeTypes)
                          /\ (id \in DOMAIN ir.doc.portTypes) <=> isPort
           /\ (DOMAIN ir.doc.portTypes \cup DOMAIN ir.doc.nodeTypes) \subseteq DOMAIN ir.doc.nodes

\* an IR with a channel and the ports at its ends
C10_Witness ==
    /\ last.op = "to_json"
    /\ last.err = NoError
    /\ ir.written
    /\ Len(dg.edges) >= 1
    /\ DOMAIN ir.doc.portTypes # {}

----------------------------------------------------------------------------
\* C11: every solve invocation (solve, or the one made by to_json) whose
\* translation succeeds hands the decision procedure exactly one formula,
\* the one holding the constraints of the finished translation of the whole
\* graph; an invocation whose translation fails hands it nothing; no retry.
C11_OneBackendCallAfterTranslation ==
    [][(last'.op \in {"solve", "to_json"} /\ nsolve' = nsolve + 1)
         => LET t == translate_schematic(dg, exprs)
            IN  /\ last'.called = (t.err = NoError)
                /\ solverLog' = IF t.err = NoError
                                THEN Append(solverLog, t.exprs)
                                ELSE solverLog]_vars

\* two solves on a translatable schematic, the second answered None: two
\* formulas handed over in all
C11_Witness ==
    /\ last.op = "solve"
    /\ last.called
    /\ last.ret = "No solution found"
    /\ nsolve = 2
    /\ Len(solverLog) = 2
    /\ \E i \in DOMAIN dg.nodes : \E e \in DOMAIN dg.edges : dg.edges[e].source = dg.nodes[i].id

----------------------------------------------------------------------------
\* C12: every entity stored by port() has kind 'input' or 'output': a
\* port() call that returns normally has stored a node of one of these two
\* kinds, and a port() call with any other kind fails and stores nothing.
PortKindsOfSpec == {Str(<<"input">>), Str(<<"output">>)}

C12_PortStoresOnlyPorts ==
    [][(last'.op = "port")
         => /\ (last'.err = NoError)
                 => \E i \in DOMAIN dg'.nodes :
                       /\ dg'.nodes[i].id = last'.args.name.s
                       /\ dg'.nodes[i].attrs[<<"kind">>] \in PortKindsOfSpec
            /\ (last'.args.kind \notin PortKindsOfSpec)
                 => (last'.err # NoError /\ dg' = dg)]_vars

----------------------------------------------------------------------------
\* C13: in a successful translation the chip-boundary constraints are
\* emitted exactly once for every node of the graph, reachable from an input
\* port or not, and all of them come after every constraint of the
\* input-port traversals: the constraints the call appended end with one
\* chip constraint per node, and none of the others is a chip constraint.
InputIds(g) ==
    {g.nodes[i].id : i \in {j \in DOMAIN g.nodes : KindOf(g, j) = <<"input">>}}

C13_ChipConstraintsLastForEveryNode ==
    (\/ last.op \in {"solve", "to_json"} /\ last.called
     \/ last.op = "translate_schematic" /\ last.err = NoError)
        => LET n == Len(dg.nodes)
               L == Len(exprs)
           IN  /\ last.appended >= n
               /\ \A i \in 1..n :
                     exprs[L - n + i] = Constraint(<<"chip">>, <<dg.nodes[i].id>>)
               /\ \A j \in (L - last.appended + 1)..(L - n) :
                     exprs[j].rule # <<"chip">>

\* a translated schematic with a node no input port leads to
C13_Witness ==
    /\ last.op = "solve"
    /\ last.called
    /\ dg.edges # <<>>
    /\ \E i \in DOMAIN dg.nodes : dg.nodes[i].id \notin Reachable(dg, InputIds(dg))

----------------------------------------------------------------------------
\* C14: an entity created by node() carries no externally supplied bounds:
\* after a node(...) call that returns normally, whatever its arguments, the
\* stored min_pressure, min_flow_rate, min_viscosity, min_density, min_x and
\* min_y are all None.
NodeBounds ==
    {<<"min", "pressure">>, <<"min", "flow", "rate">>, <<"min", "viscosity">>,
     <<"min", "density">>, <<"min", "x">>, <<"min", "y">>}

C14_NodeHasNoBounds ==
    [][(last'.op = "node" /\ last'.err = NoError)
         => \E i \in DOMAIN dg'.nodes :
               /\ dg'.nodes[i].id = last'.args.name.s
               /\ \A k \in NodeBounds : dg'.nodes[i].attrs[k] = PyNone]_vars

----------------------------------------------------------------------------
\* C15: after any sequence of creation operations, channel() on endpoint
\* names no port or node was created for included, every node of the graph
\* carries a 'kind' attribute (so translate_schematic and to_json can read
\* the kind of every node, and the names of a channel's endpoints are not
\* taken from a later port() or node() call).
C15_EveryNodeHasKind ==
    \A i \in DOMAIN dg.nodes : <<"kind">> \in DOMAIN dg.nodes[i].attrs

----------------------------------------------------------------------------
\* C16: when the decision procedure reports unsatisfiable, solve returns
\* the no-solution value without raising, and to_json writes no IR file:
\* it stops before the output file is opened, so no IR built from a
\* no-solution result is serialized.
C16_NoSolutionWritesNoIr ==
    [][/\ (last'.op = "solve" /\ last'.answer = "none")
            => (last'.err = NoError /\ last'.ret = "No solution found")
       /\ (last'.op = "to_json" /\ last'.answer = "none")
            => (last'.err # NoError /\ ~ir'.written /\ nxjson' = NoJson)]_vars

\* to_json on a schematic with a channel, answered unsatisfiable
C16_Witness ==
    /\ last.op = "to_json"
    /\ last.answer = "none"
    /\ last.called
    /\ dg.edges # <<>>
    /\ ~ir.written

====
